---- MODULE Spec2Model ----
(***************************************************************************)
(* A model of kube's api module: the admission webhook exchange            *)
(* (admission.rs), the type-erased resource identity and the two object    *)
(* representations (dynamic.rs, object.rs), and the request parameters     *)
(* (params.rs).                                                            *)
(*                                                                         *)
(* Rust values are modelled as follows.  Option<T>: None is the empty      *)
(* sequence and Some(x) the one-element sequence <<x>>.  Result<T>: a      *)
(* record with the field ok, and val or err.  A struct is a record with    *)
(* the struct's field names.                                               *)
(***************************************************************************)
EXTENDS Naturals, Sequences, FiniteSets, TLC

VARIABLES
    stage,      \* per exchange: where the webhook handler stands
    origin,     \* per exchange: the types and request uid of the body as it arrived
    review,     \* per exchange: the deserialized incoming AdmissionReview
    converted,  \* per exchange: the Result of review.try_into()
    response,   \* per exchange: the AdmissionResponse being built
    sent,       \* per exchange: the AdmissionReview handed back to the caller
    dt,         \* the GroupVersionKind in hand: the Result of the last constructor call
    call,       \* the last call made on GroupVersionKind or its objects, with its arguments
    dynamic_object, \* the DynamicObject of the GroupVersionKind in hand
    object,     \* the Object<Spec, Status> of the GroupVersionKind in hand
    params,     \* the ListParams, PostParams or PatchParams value in hand
    outcome     \* what the last call returned, when it was not a new params value

admission == <<stage, origin, review, converted, response, sent>>

dynamic == <<dt, call, dynamic_object, object>>

parameters == <<params, outcome>>

vars ==
    <<stage, origin, review, converted, response, sent,
      dt, call, dynamic_object, object, params, outcome>>

----------------------------------------------------------------------------
(* Option and Result *)

None == <<>>

Some(x) == <<x>>

IsSome(o) == o # <<>>

IsNone(o) == o = <<>>

Unwrap(o) == o[1]

Ok(x) == [ok |-> TRUE, val |-> x]

Err(variant, msg) == [ok |-> FALSE, err |-> [variant |-> variant, msg |-> msg]]

----------------------------------------------------------------------------
(* admission.rs: constants and types *)

META_KIND == "AdmissionReview"

META_API_VERSION_V1 == "admission.k8s.io/v1"

META_API_VERSION_V1BETA1 == "admission.k8s.io/v1beta1"

TypeMeta(api_version, kind) == [api_version |-> api_version, kind |-> kind]

\* TypeMeta::default(): what serde puts in a #[serde(skip)] field
DefaultTypeMeta == TypeMeta("", "")

\* Status::default(): every field of the k8s Status absent
DefaultStatus == [code |-> None, message |-> None, reason |-> None, status |-> None]

JsonPatch == "JSONPatch"

\* struct AdmissionRequest<T>; types is the private, serde-skipped field
AdmissionRequest(types, uid, operation) ==
    [types |-> types, uid |-> uid, name |-> "echo-pod",
     namespace |-> Some("colin-coder"), operation |-> operation,
     dry_run |-> FALSE]

\* struct AdmissionReview<T>
AdmissionReview(types, request, resp) ==
    [types |-> types, request |-> request, response |-> resp]

----------------------------------------------------------------------------
(* admission.rs: the conversions and the response builder *)

\* a conversion that forgets `req.types = self.types`
try_into_keeps_types(self) ==
    IF IsSome(self.request)
    THEN Ok(Unwrap(self.request))
    ELSE Err("RequestValidation",
             "invalid AdmissionRequest. expected Some but got None")

\* a conversion that reports the absent request under another error variant
try_into_wrong_error(self) ==
    IF IsSome(self.request)
    THEN Ok([Unwrap(self.request) EXCEPT !.types = self.types])
    ELSE Err("DynamicType",
             "invalid AdmissionRequest. expected Some but got None")

\* a conversion that falls back to a default request (unwrap_or_default)
try_into_or_default(self) ==
    LET req == IF IsSome(self.request) THEN Unwrap(self.request)
               ELSE [types |-> DefaultTypeMeta, uid |-> "", name |-> "",
                     namespace |-> None, operation |-> "CREATE", dry_run |-> FALSE]
    IN Ok([req EXCEPT !.types = self.types])

\* impl TryInto<AdmissionRequest<T>> for AdmissionReview<T>
try_into(self) ==
    IF IsSome(self.request)
    THEN Ok([Unwrap(self.request) EXCEPT !.types = self.types])
    ELSE Err("RequestValidation",
             "invalid AdmissionRequest. expected Some but got None")

\* a constructor that answers every request as admission.k8s.io/v1
from_fixed_version(req) ==
    [types |-> TypeMeta(META_API_VERSION_V1, META_KIND),
     uid |-> req.uid,
     allowed |-> TRUE,
     result |-> DefaultStatus,
     patch |-> None,
     patch_type |-> None,
     audit_annotations |-> {},
     warnings |-> None]

\* a constructor that leaves the uid at its default
from_without_uid(req) ==
    [types |-> req.types,
     uid |-> "",
     allowed |-> TRUE,
     result |-> DefaultStatus,
     patch |-> None,
     patch_type |-> None,
     audit_annotations |-> {},
     warnings |-> None]

\* impl From<&AdmissionRequest<T>> for AdmissionResponse
from(req) ==
    [types |-> req.types,
     uid |-> req.uid,
     allowed |-> TRUE,
     result |-> DefaultStatus,
     patch |-> None,
     patch_type |-> None,
     audit_annotations |-> {},
     warnings |-> None]

\* an invalid() that answers as admission.k8s.io/v1
invalid_v1(reason) ==
    [types |-> TypeMeta(META_API_VERSION_V1, META_KIND),
     uid |-> "",
     allowed |-> FALSE,
     result |-> [DefaultStatus EXCEPT !.reason = Some(reason)],
     patch |-> None,
     patch_type |-> None,
     audit_annotations |-> {},
     warnings |-> None]

\* AdmissionResponse::invalid
invalid(reason) ==
    [types |-> TypeMeta(META_API_VERSION_V1BETA1, META_KIND),
     uid |-> "",
     allowed |-> FALSE,
     result |-> [DefaultStatus EXCEPT !.reason = Some(reason)],
     patch |-> None,
     patch_type |-> None,
     audit_annotations |-> {},
     warnings |-> None]

\* a deny() that also drops the patch, a denial applying none
deny_drops_patch(self, reason) ==
    [self EXCEPT !.allowed = FALSE, !.result.message = Some(reason),
                 !.patch = None, !.patch_type = None]

\* AdmissionResponse::deny
deny(self, reason) ==
    [self EXCEPT !.allowed = FALSE, !.result.message = Some(reason)]

\* serde_json::to_vec of one json_patch::PatchOperation (tagged by "op")
OperationJson(op) ==
    IF op.op = "add"
    THEN "{\"op\":\"add\",\"path\":\"" \o op.path \o "\",\"value\":\"" \o op.value \o "\"}"
    ELSE "{\"op\":\"" \o op.op \o "\",\"path\":\"" \o op.path \o "\"}"

RECURSIVE OperationsJson(_)
OperationsJson(ops) ==
    IF ops = <<>> THEN ""
    ELSE IF Len(ops) = 1 THEN OperationJson(Head(ops))
    ELSE OperationJson(Head(ops)) \o "," \o OperationsJson(Tail(ops))

\* serde_json::to_vec(&patch): a json_patch::Patch is a JSON array of operations;
\* the bytes are UTF-8 and kept here as the text they encode
to_vec(patch) == Ok("[" \o OperationsJson(patch) \o "]")

\* a with_patch() that refuses a denied response
with_patch_allowed_only(self, patch) ==
    IF self.allowed
    THEN Ok([self EXCEPT !.patch = Some("[" \o OperationsJson(patch) \o "]"),
                         !.patch_type = Some(JsonPatch)])
    ELSE Err("RequestValidation", "patch on a denied response")

\* a with_patch() that sets the patch and leaves the patch type as it was
with_patch_body_only(self, patch) ==
    Ok([self EXCEPT !.patch = Some("[" \o OperationsJson(patch) \o "]")])

\* a with_patch() that marks the patched response as allowed
with_patch_allows(self, patch) ==
    Ok([self EXCEPT !.patch = Some("[" \o OperationsJson(patch) \o "]"),
                    !.patch_type = Some(JsonPatch), !.allowed = TRUE])

\* a with_patch() that starts from a fresh status
with_patch_fresh_status(self, patch) ==
    Ok([self EXCEPT !.patch = Some("[" \o OperationsJson(patch) \o "]"),
                    !.patch_type = Some(JsonPatch), !.result = DefaultStatus])

\* AdmissionResponse::with_patch; the ? returns the serializer's error
with_patch(self, patch) ==
    LET bytes == to_vec(patch) IN
    IF bytes.ok
    THEN Ok([self EXCEPT !.patch = Some(bytes.val), !.patch_type = Some(JsonPatch)])
    ELSE bytes

\* an into_review() that fills the envelope's types with the default
into_review_default_types(self) ==
    AdmissionReview(DefaultTypeMeta, None, Some(self))

\* AdmissionResponse::into_review
into_review(self) ==
    AdmissionReview(self.types, None, Some(self))

----------------------------------------------------------------------------
(* dynamic.rs: GroupVersionKind.  A String is the sequence of its pieces: the *)
(* piece "/" is the character '/', and no other piece holds a '/'.            *)

Slash == <<"/">>

\* str::is_empty
is_empty(str) == str = <<>>

\* format!("{}/{}", a, b)
format_slash(a, b) == a \o Slash \o b

\* the position of the first '/' of str, 0 when it has none
RECURSIVE find_slash(_, _)
find_slash(str, i) ==
    IF i > Len(str) THEN 0
    ELSE IF str[i] = "/" THEN i
    ELSE find_slash(str, i + 1)

\* a split on every '/' that keeps the first two pieces: split, not splitn(2, ..)
split_first_two(str) ==
    LET i == find_slash(str, 1)
        rest == SubSeq(str, i + 1, Len(str))
        j == find_slash(rest, 1)
    IN IF i = 0 THEN <<str>>
       ELSE <<SubSeq(str, 1, i - 1), IF j = 0 THEN rest ELSE SubSeq(rest, 1, j - 1)>>

\* str.splitn(2, '/').collect::<Vec<_>>()
splitn2(str) ==
    LET i == find_slash(str, 1) IN
    IF i = 0 THEN <<str>>
    ELSE <<SubSeq(str, 1, i - 1), SubSeq(str, i + 1, Len(str))>>

\* Option::unwrap_or_else
unwrap_or_else(o, default) == IF IsSome(o) THEN Unwrap(o) ELSE default

\* struct GroupVersionKind
GroupVersionKind(group, version, kind, api_version, plural_) ==
    [group |-> group, version |-> version, kind |-> kind,
     api_version |-> api_version, plural |-> plural_]

\* GroupVersionKind::from_api_resource
from_api_resource(ar, group_version) ==
    LET gvsplit == splitn2(group_version)
        default_group == IF Len(gvsplit) = 2 THEN gvsplit[1] ELSE <<>>
        default_version == IF Len(gvsplit) = 2 THEN gvsplit[2] ELSE gvsplit[1]
        group == unwrap_or_else(ar.group, default_group)
        version == unwrap_or_else(ar.version, default_version)
        kind == ar.kind
        api_version == IF is_empty(group) THEN version ELSE format_slash(group, version)
    IN GroupVersionKind(group, version, kind, api_version, Some(ar.name))

\* a gvk() that joins group and version with '/' whatever the group
gvk_always_joins(group_, version_, kind_) ==
    IF is_empty(version_)
    THEN Err("DynamicType", <<"GroupVersionKind '", kind_, "' must have a version">>)
    ELSE IF is_empty(kind_)
    THEN Err("DynamicType", <<"GroupVersionKind '", kind_, "' must have a kind">>)
    ELSE Ok(GroupVersionKind(group_, version_, kind_, format_slash(group_, version_), None))

\* a gvk() that checks the version and not the kind
gvk_unchecked_kind(group_, version_, kind_) ==
    IF is_empty(version_)
    THEN Err("DynamicType", <<"GroupVersionKind '", kind_, "' must have a version">>)
    ELSE Ok(GroupVersionKind(group_, version_, kind_,
                             IF is_empty(group_) THEN version_
                             ELSE format_slash(group_, version_), None))

\* GroupVersionKind::gvk
gvk(group_, version_, kind_) ==
    LET version == version_
        group == group_
        kind == kind_
        api_version == IF is_empty(group) THEN version ELSE format_slash(group, version)
    IN IF is_empty(version)
       THEN Err("DynamicType", <<"GroupVersionKind '", kind, "' must have a version">>)
       ELSE IF is_empty(kind)
       THEN Err("DynamicType", <<"GroupVersionKind '", kind, "' must have a kind">>)
       ELSE Ok(GroupVersionKind(group, version, kind, api_version, None))

\* GroupVersionKind::plural
plural(self, plural_) == [self EXCEPT !.plural = Some(plural_)]

\* an equality that looks at the identity only, not at the plural
GroupVersionKind_eq_identity(self, other) ==
    /\ self.group = other.group
    /\ self.version = other.version
    /\ self.kind = other.kind
    /\ self.api_version = other.api_version

\* #[derive(PartialEq, Eq)] for GroupVersionKind: field by field
GroupVersionKind_eq(self, other) ==
    /\ self.group = other.group
    /\ self.version = other.version
    /\ self.kind = other.kind
    /\ self.api_version = other.api_version
    /\ self.plural = other.plural

----------------------------------------------------------------------------
(* dynamic.rs and object.rs: DynamicObject, Object<P, U> and their Resource impls. *)
(* Kinds and plurals are spelled character by character.                          *)

UpperCase ==
    <<"A", "B", "C", "D", "E", "F", "G", "H", "I", "J", "K", "L", "M",
      "N", "O", "P", "Q", "R", "S", "T", "U", "V", "W", "X", "Y", "Z">>

LowerCase ==
    <<"a", "b", "c", "d", "e", "f", "g", "h", "i", "j", "k", "l", "m",
      "n", "o", "p", "q", "r", "s", "t", "u", "v", "w", "x", "y", "z">>

\* u8::to_ascii_lowercase
char_to_ascii_lowercase(c) ==
    IF \E i \in 1..26 : UpperCase[i] = c
    THEN LowerCase[CHOOSE i \in 1..26 : UpperCase[i] = c]
    ELSE c

\* str::to_ascii_lowercase
to_ascii_lowercase(str) == [i \in 1..Len(str) |-> char_to_ascii_lowercase(str[i])]

\* str::ends_with
ends_with(str, suffix) ==
    /\ Len(str) >= Len(suffix)
    /\ SubSeq(str, Len(str) - Len(suffix) + 1, Len(str)) = suffix

\* metadata::to_plural: -es after s, x, z, ch, sh; -ies for a consonant and y; else -s
to_plural(word) ==
    IF \/ ends_with(word, <<"s">>) \/ ends_with(word, <<"x">>) \/ ends_with(word, <<"z">>)
       \/ ends_with(word, <<"c", "h">>) \/ ends_with(word, <<"s", "h">>)
    THEN word \o <<"e", "s">>
    ELSE IF /\ ends_with(word, <<"y">>)
            /\ Len(word) >= 2
            /\ word[Len(word) - 1] \notin {"a", "e", "i", "o", "u"}
    THEN SubSeq(word, 1, Len(word) - 1) \o <<"i", "e", "s">>
    ELSE word \o <<"s">>

\* ObjectMeta, the fields the Resource impls read
ObjectMeta(name, namespace, resource_version) ==
    [name |-> name, namespace |-> namespace, resource_version |-> resource_version]

\* ObjectMeta::default()
DefaultObjectMeta == ObjectMeta(None, None, None)

\* a panic of expect(msg), as the outcome of a call
Panic(msg) == [ok |-> FALSE, err |-> [variant |-> "panic", msg |-> msg]]

\* DynamicObject::new
DynamicObject_new(name, gvk_) ==
    [types |-> Some(TypeMeta(gvk_.api_version, gvk_.kind)),
     metadata |-> [DefaultObjectMeta EXCEPT !.name = Some(name)],
     data |-> "null"]

\* DynamicObject::namespace, the builder that attaches a namespace
DynamicObject_with_namespace(self, ns) == [self EXCEPT !.metadata.namespace = Some(ns)]

\* impl Resource for DynamicObject
DynamicObject_group(dt_) == dt_.group

DynamicObject_version(dt_) == dt_.version

DynamicObject_kind(dt_) == dt_.kind

DynamicObject_api_version(dt_) == dt_.api_version

\* a plural() that infers from the kind as it is written
DynamicObject_plural_as_written(dt_) ==
    IF IsSome(dt_.plural) THEN Unwrap(dt_.plural)
    ELSE to_plural(DynamicObject_kind(dt_))

DynamicObject_plural(dt_) ==
    IF IsSome(dt_.plural) THEN Unwrap(dt_.plural)
    ELSE to_plural(to_ascii_lowercase(DynamicObject_kind(dt_)))

DynamicObject_meta(self) == self.metadata

\* a name() that falls back to the empty name (unwrap_or_default)
DynamicObject_name_or_default(self) ==
    IF IsSome(self.metadata.name) THEN Ok(Unwrap(self.metadata.name)) ELSE Ok(<<>>)

DynamicObject_name(self) ==
    IF IsSome(self.metadata.name) THEN Ok(Unwrap(self.metadata.name))
    ELSE Panic("missing name")

DynamicObject_namespace(self) == self.metadata.namespace

DynamicObject_resource_ver(self) == self.metadata.resource_version

\* an Object::new that takes the version for the api_version
Object_new_version_only(name, gvk_, spec) ==
    [types |-> TypeMeta(gvk_.version, gvk_.kind),
     metadata |-> [DefaultObjectMeta EXCEPT !.name = Some(name)],
     spec |-> spec,
     status |-> None]

\* Object::new
Object_new(name, gvk_, spec) ==
    [types |-> TypeMeta(gvk_.api_version, gvk_.kind),
     metadata |-> [DefaultObjectMeta EXCEPT !.name = Some(name)],
     spec |-> spec,
     status |-> None]

\* impl Resource for Object<P, U>
Object_group(dt_) == dt_.group

Object_version(dt_) == dt_.version

Object_kind(dt_) == dt_.kind

Object_api_version(dt_) == dt_.api_version

Object_plural(dt_) ==
    IF IsSome(dt_.plural) THEN Unwrap(dt_.plural)
    ELSE to_plural(to_ascii_lowercase(Object_kind(dt_)))

Object_meta(self) == self.metadata

Object_name(self) ==
    IF IsSome(self.metadata.name) THEN Ok(Unwrap(self.metadata.name))
    ELSE Panic("missing name")

Object_namespace(self) == self.metadata.namespace

Object_resource_ver(self) == self.metadata.resource_version

\* Resource::url_path from what an impl reports: /api or /apis, the api_version,
\* namespaces/<ns> when namespaced, and the plural
url_path(group, api_version, plural_, namespace) ==
    <<"/">> \o (IF is_empty(group) THEN <<"api">> ELSE <<"apis">>)
        \o <<"/">> \o api_version \o <<"/">>
        \o (IF IsSome(namespace)
            THEN <<"namespaces", "/">> \o Unwrap(namespace) \o <<"/">> ELSE <<>>)
        \o plural_

\* DynamicObject::url_path(&gvk, namespace)
DynamicObject_url_path(dt_, namespace) ==
    url_path(DynamicObject_group(dt_), DynamicObject_api_version(dt_),
             DynamicObject_plural(dt_), namespace)

\* Object::<P, U>::url_path(&gvk, namespace)
Object_url_path(dt_, namespace) ==
    url_path(Object_group(dt_), Object_api_version(dt_), Object_plural(dt_), namespace)

----------------------------------------------------------------------------
(* params.rs: ListParams, PostParams, Patch and PatchParams.                   *)
(* A String here is the sequence of its chars; its len() is its UTF-8 length. *)

\* char::len_utf8 of the chars in use: "U+00E9" is the two-byte e-acute
len_utf8(c) == IF c = "U+00E9" THEN 2 ELSE 1

\* the number of chars of str that take width bytes
CharsOfWidth(str, width) == Cardinality({i \in 1..Len(str) : len_utf8(str[i]) = width})

\* String::len, the length in bytes: the sum of the chars' widths
String_len(str) ==
    CharsOfWidth(str, 1) + 2 * CharsOfWidth(str, 2)
        + 3 * CharsOfWidth(str, 3) + 4 * CharsOfWidth(str, 4)

\* Ok(())
Unit == "()"

ListParams(label_selector, field_selector, timeout, bookmarks, limit, continue_token) ==
    [label_selector |-> label_selector, field_selector |-> field_selector,
     timeout |-> timeout, bookmarks |-> bookmarks,
     limit |-> limit, continue_token |-> continue_token]

\* impl Default for ListParams
ListParams_default == ListParams(None, None, None, TRUE, None, None)

\* a validate that lets 295 through
ListParams_validate_above(self) ==
    IF IsSome(self.timeout) /\ Unwrap(self.timeout) > 295
    THEN Err("RequestValidation", "ListParams::timeout must be < 295s")
    ELSE Ok(Unit)

\* ListParams::validate
ListParams_validate(self) ==
    IF IsSome(self.timeout) /\ Unwrap(self.timeout) >= 295
    THEN Err("RequestValidation", "ListParams::timeout must be < 295s")
    ELSE Ok(Unit)

ListParams_timeout(self, timeout_secs) == [self EXCEPT !.timeout = Some(timeout_secs)]

ListParams_fields(self, field_selector) == [self EXCEPT !.field_selector = Some(field_selector)]

ListParams_labels(self, label_selector) == [self EXCEPT !.label_selector = Some(label_selector)]

ListParams_disable_bookmarks(self) == [self EXCEPT !.bookmarks = FALSE]

ListParams_limit(self, limit) == [self EXCEPT !.limit = Some(limit)]

ListParams_continue_token(self, token) == [self EXCEPT !.continue_token = Some(token)]

PostParams(dry_run, field_manager) == [dry_run |-> dry_run, field_manager |-> field_manager]

\* a validate that refuses a field manager of 128 bytes
PostParams_validate_at(self) ==
    IF IsSome(self.field_manager) /\ String_len(Unwrap(self.field_manager)) >= 128
    THEN Err("RequestValidation", "Failed to validate PostParams::field_manager!")
    ELSE Ok(Unit)

\* PostParams::validate
PostParams_validate(self) ==
    IF IsSome(self.field_manager) /\ String_len(Unwrap(self.field_manager)) > 128
    THEN Err("RequestValidation", "Failed to validate PostParams::field_manager!")
    ELSE Ok(Unit)

\* enum Patch<T>: Apply(T), Json(json_patch::Patch), Merge(T), Strategic(T)
Patch(variant, body) == [variant |-> variant, body |-> body]

\* Patch::is_apply
is_apply(self) == self.variant = "Apply"

\* a content_type that sends a merge patch as a JSON patch
content_type_merge_as_json(self) ==
    CASE self.variant = "Apply" -> "application/apply-patch+yaml"
      [] self.variant = "Json" -> "application/json-patch+json"
      [] self.variant = "Merge" -> "application/json-patch+json"
      [] self.variant = "Strategic" -> "application/strategic-merge-patch+json"

\* Patch::content_type
content_type(self) ==
    CASE self.variant = "Apply" -> "application/apply-patch+yaml"
      [] self.variant = "Json" -> "application/json-patch+json"
      [] self.variant = "Merge" -> "application/merge-patch+json"
      [] self.variant = "Strategic" -> "application/strategic-merge-patch+json"

PatchParams(dry_run, force, field_manager) ==
    [dry_run |-> dry_run, force |-> force, field_manager |-> field_manager]

\* #[derive(Default)] for PatchParams
PatchParams_default == PatchParams(FALSE, FALSE, None)

\* a validate that refuses force on a patch that is not Apply
PatchParams_validate_strict(self, patch) ==
    IF IsSome(self.field_manager) /\ String_len(Unwrap(self.field_manager)) > 128
    THEN [result |-> Err("RequestValidation", "Failed to validate PatchParams::field_manager!"),
          warned |-> FALSE]
    ELSE IF self.force /\ ~is_apply(patch)
    THEN [result |-> Err("RequestValidation", "PatchParams::force only works with Patch::Apply"),
          warned |-> FALSE]
    ELSE [result |-> Ok(Unit), warned |-> FALSE]

\* PatchParams::validate: its Result, and whether it logged the warn!
PatchParams_validate(self, patch) ==
    IF IsSome(self.field_manager) /\ String_len(Unwrap(self.field_manager)) > 128
    THEN [result |-> Err("RequestValidation", "Failed to validate PatchParams::field_manager!"),
          warned |-> FALSE]
    ELSE [result |-> Ok(Unit), warned |-> self.force /\ ~is_apply(patch)]

\* PatchParams::apply
PatchParams_apply(manager) == [PatchParams_default EXCEPT !.field_manager = Some(manager)]

\* PatchParams::force
PatchParams_force(self) == [self EXCEPT !.force = TRUE]

\* PatchParams::dry_run
PatchParams_dry_run(self) == [self EXCEPT !.dry_run = TRUE]

\* struct Preconditions
Preconditions(resource_version, uid) == [resource_version |-> resource_version, uid |-> uid]

DeleteParams(dry_run, grace_period_seconds, propagation_policy, preconditions) ==
    [dry_run |-> dry_run, grace_period_seconds |-> grace_period_seconds,
     propagation_policy |-> propagation_policy, preconditions |-> preconditions]

\* #[derive(Default)] for DeleteParams
DeleteParams_default == DeleteParams(FALSE, None, None, None)

\* JSON text is the sequence of its tokens; a string token holds its quotes
Quoted(str) == "\"" \o str \o "\""

RECURSIVE JoinFields(_)
\* the fields of a struct, separated by commas
JoinFields(fields) ==
    IF fields = <<>> THEN <<>>
    ELSE IF Len(fields) = 1 THEN fields[1]
    ELSE fields[1] \o <<",">> \o JoinFields(Tail(fields))

\* SerializeStruct of serde_json: the fields that were not skipped, in braces
JsonObject(fields) == <<"{">> \o JoinFields(fields) \o <<"}">>

\* skip_serializing_if: the field, "key":value, is left out when skip holds
FieldUnless(skip, key, value) == IF skip THEN <<>> ELSE << <<Quoted(key), ":">> \o value >>

\* a dry_run_all_ser that writes the flag as a boolean
dry_run_bool_ser(t) == IF t THEN <<"true">> ELSE <<"false">>

\* dry_run_all_ser: a tuple of the one element "All", or none
dry_run_all_ser(t) == IF t THEN <<"[", Quoted("All"), "]">> ELSE <<"null">>

\* #[derive(Serialize)] for PropagationPolicy: a unit variant is its name
PropagationPolicy_serialize(self) == <<Quoted(self)>>

\* #[derive(Serialize)] #[serde(rename_all = "camelCase")] for Preconditions
Preconditions_serialize(self) ==
    JsonObject(
        FieldUnless(IsNone(self.resource_version), "resourceVersion",
                    IF IsSome(self.resource_version)
                    THEN <<Quoted(Unwrap(self.resource_version))>> ELSE <<"null">>)
        \o FieldUnless(IsNone(self.uid), "uid",
                       IF IsSome(self.uid) THEN <<Quoted(Unwrap(self.uid))>> ELSE <<"null">>))

\* #[derive(Serialize)] #[serde(rename_all = "camelCase")] for DeleteParams
DeleteParams_serialize(self) ==
    JsonObject(
        FieldUnless(~self.dry_run, "dryRun", dry_run_all_ser(self.dry_run))
        \o FieldUnless(IsNone(self.grace_period_seconds), "gracePeriodSeconds",
                       IF IsSome(self.grace_period_seconds)
                       THEN <<ToString(Unwrap(self.grace_period_seconds))>> ELSE <<"null">>)
        \o FieldUnless(IsNone(self.propagation_policy), "propagationPolicy",
                       IF IsSome(self.propagation_policy)
                       THEN PropagationPolicy_serialize(Unwrap(self.propagation_policy))
                       ELSE <<"null">>)
        \o FieldUnless(IsNone(self.preconditions), "preconditions",
                       IF IsSome(self.preconditions)
                       THEN Preconditions_serialize(Unwrap(self.preconditions))
                       ELSE <<"null">>))

RECURSIVE to_string(_)
\* serde_json::to_string: the text of the token sequence
to_string(tokens) == IF tokens = <<>> THEN "" ELSE Head(tokens) \o to_string(Tail(tokens))

----------------------------------------------------------------------------
(* The inputs of the exchanges *)

\* the exchanges a webhook server has in flight
Exchanges == {"e1", "e2"}

\* a server that handles one exchange at a time
Single == {"e1"}

Uids == {"0c9a8d74", "5b1f2e90"}

Reasons == {"Some rejection reason.", "unreadable body"}

ReviewTypes ==
    {TypeMeta(META_API_VERSION_V1, META_KIND), TypeMeta(META_API_VERSION_V1BETA1, META_KIND)}

\* a request as found inside a review: deserialized (types skipped, so default)
\* or put there by a caller that cloned an already converted request
Requests ==
    {AdmissionRequest(t, uid, "CREATE") :
        t \in {DefaultTypeMeta, TypeMeta(META_API_VERSION_V1BETA1, META_KIND)},
        uid \in Uids}

\* a response found in an incoming review (the field is optional on the wire)
StrayResponse == from(AdmissionRequest(DefaultTypeMeta, "", "CREATE"))

\* what serde can deserialize a body into
Reviews ==
    {AdmissionReview(t, rq, rs) :
        t \in ReviewTypes,
        rq \in {None} \cup {Some(r) : r \in Requests},
        rs \in {None, Some(StrayResponse)}}

AddLabel == [op |-> "add", path |-> "/metadata/labels/my-label", value |-> "my-value"]

RemoveLabel == [op |-> "remove", path |-> "/metadata/labels/old"]

\* the JSON patches a handler attaches: none, one and two operations
Patches == {<<>>, <<AddLabel>>, <<AddLabel, RemoveLabel>>}

AuditAnnotation == <<"error", "image-blacklisted">>

Warning == "deprecated label"

----------------------------------------------------------------------------
(* The inputs of the GroupVersionKind constructors *)

\* the most '/'-separated segments a group_version string has
MaxSegments == 3

\* the segments group_version strings are made of, the empty one included
Segments == {<<>>, <<"apps">>, <<"v1">>}

RECURSIVE SeqsOfLen(_, _)
SeqsOfLen(S, n) ==
    IF n = 0 THEN {<<>>}
    ELSE {Append(q, x) : q \in SeqsOfLen(S, n - 1), x \in S}

\* segs[1] "/" segs[2] "/" ... of a non-empty sequence of segments
RECURSIVE JoinSegments(_)
JoinSegments(segs) ==
    IF Len(segs) = 1 THEN segs[1]
    ELSE format_slash(segs[1], JoinSegments(Tail(segs)))

\* the group_version strings of a discovery response: "", "v1", "apps/v1", "/v1", ...
GroupVersions ==
    {JoinSegments(segs) : segs \in UNION {SeqsOfLen(Segments, n) : n \in 1..MaxSegments}}

Groups == {<<>>, <<"apps">>, <<"clux.dev">>}

Versions == {<<>>, <<"v1">>, <<"v1beta1">>}

KindService == <<"S", "e", "r", "v", "i", "c", "e">>

KindFoo == <<"F", "o", "o">>

Kinds == {<<>>, KindService, KindFoo, <<"I", "n", "g", "r", "e", "s", "s">>}

Plurals == {<<"s", "e", "r", "v", "i", "c", "e", "s">>, <<"f", "o", "o", "s">>, <<"deployments">>}

Names == {<<"baz">>, <<"blog">>}

Namespaces == {<<"myns">>}

\* the metadata of a body from the server; the name can be missing from it
Metadatas ==
    {ObjectMeta(n, ns, rv) :
        n \in {None, Some(<<"baz">>)},
        ns \in {None, Some(<<"myns">>)},
        rv \in {None, Some(<<"42">>)}}

\* the spec of the typed object
FooSpec == [foo |-> "bar"]

\* the largest timeout in seconds that is tried
MaxTimeout == 296

Timeouts == {0, 60, 290} \cup (293..MaxTimeout)

\* the longest field manager that is tried, in chars
MaxManagerLen == 130

\* the string of n times the char c
Repeat(c, n) == [i \in 1..n |-> c]

\* field managers of one-byte chars around the limit, and of two-byte chars
\* whose byte length is around it
FieldManagers ==
    {Repeat("a", n) : n \in {0, 1} \cup (127..MaxManagerLen)}
        \cup {Repeat("U+00E9", n) : n \in {64, 65}}

\* the bodies of Apply, Merge and Strategic patches
PatchBodies == {[spec |-> [activeDeadlineSeconds |-> 5]], [metadata |-> [name |-> "blog"]]}

AnyPatch ==
    {Patch(v, b) : v \in {"Apply", "Merge", "Strategic"}, b \in PatchBodies}
        \cup {Patch("Json", b) : b \in Patches}

\* k8s APIResource, the fields from_api_resource reads
APIResources ==
    [group : {None, Some(<<>>), Some(<<"batch">>)},
     version : {None, Some(<<"v2">>)},
     kind : {<<>>, <<"Deployment">>},
     name : {<<"deployments">>}]

----------------------------------------------------------------------------
(* The calls on GroupVersionKind *)

InitDynamic ==
    /\ dt = None
    /\ call = None
    /\ dynamic_object = None
    /\ object = None

\* GroupVersionKind::gvk(group_, version_, kind_)
Gvk(group_, version_, kind_) ==
    /\ IsNone(dt)
    /\ dt' = Some(gvk(group_, version_, kind_))
    /\ call' = Some([fn |-> "gvk", group |-> group_, version |-> version_, kind |-> kind_])
    /\ UNCHANGED <<admission, parameters, dynamic_object, object>>

\* GroupVersionKind::from_api_resource(ar, group_version)
FromApiResource(ar, group_version) ==
    /\ IsNone(dt)
    /\ dt' = Some(Ok(from_api_resource(ar, group_version)))
    /\ call' = Some([fn |-> "from_api_resource", ar |-> ar, group_version |-> group_version])
    /\ UNCHANGED <<admission, parameters, dynamic_object, object>>

\* gvk.plural(plural_), on a GroupVersionKind a constructor returned
Plural(plural_) ==
    /\ IsSome(dt) /\ Unwrap(dt).ok
    /\ dt' = Some(Ok(plural(Unwrap(dt).val, plural_)))
    /\ call' = Some([fn |-> "plural", self |-> Unwrap(dt).val, plural |-> plural_])
    /\ UNCHANGED <<admission, parameters, dynamic_object, object>>

\* DynamicObject::new(name, &gvk) and Object::new(name, &gvk, spec)
New(name) ==
    /\ IsSome(dt) /\ Unwrap(dt).ok
    /\ dynamic_object' = Some(DynamicObject_new(name, Unwrap(dt).val))
    /\ object' = Some(Object_new(name, Unwrap(dt).val, FooSpec))
    /\ call' = Some([fn |-> "new", name |-> name])
    /\ UNCHANGED <<admission, parameters, dt>>

\* a body of the GroupVersionKind in hand is deserialized, as either representation
Deserialize(metadata) ==
    /\ IsSome(dt) /\ Unwrap(dt).ok
    /\ LET types == TypeMeta(Unwrap(dt).val.api_version, Unwrap(dt).val.kind) IN
       /\ dynamic_object' = Some([types |-> Some(types), metadata |-> metadata, data |-> "null"])
       /\ object' = Some([types |-> types, metadata |-> metadata,
                          spec |-> FooSpec, status |-> None])
    /\ call' = Some([fn |-> "deserialize", metadata |-> metadata])
    /\ UNCHANGED <<admission, parameters, dt>>

\* dynamic_object.namespace(ns), and object.metadata.namespace = Some(ns)
AttachNamespace(ns) ==
    /\ IsSome(dynamic_object) /\ IsSome(object)
    /\ dynamic_object' = Some(DynamicObject_with_namespace(Unwrap(dynamic_object), ns))
    /\ object' = Some([Unwrap(object) EXCEPT !.metadata.namespace = Some(ns)])
    /\ call' = Some([fn |-> "namespace", ns |-> ns])
    /\ UNCHANGED <<admission, parameters, dt>>

NextDynamic ==
    \/ \E g \in Groups, v \in Versions, k \in Kinds : Gvk(g, v, k)
    \/ \E ar \in APIResources, gv \in GroupVersions : FromApiResource(ar, gv)
    \/ \E p \in Plurals : Plural(p)
    \/ \E name \in Names : New(name)
    \/ \E metadata \in Metadatas : Deserialize(metadata)
    \/ \E ns \in Namespaces : AttachNamespace(ns)

----------------------------------------------------------------------------
(* Request parameters: a value is built, its builders chained, and validated *)

InitParams ==
    /\ params = None
    /\ outcome = None

HasParams(type) == IsSome(params) /\ Unwrap(params).type = type

Params == Unwrap(params).val

\* a new params value is in hand; what was returned for the old one is dropped
Build(type, val) ==
    /\ params' = Some([type |-> type, val |-> val])
    /\ outcome' = None
    /\ UNCHANGED <<admission, dynamic>>

\* a call returned to the caller and left the params value as it was
Return(result) ==
    /\ outcome' = Some(result)
    /\ UNCHANGED <<admission, dynamic, params>>

ListDefault ==
    /\ IsNone(params)
    /\ Build("ListParams", ListParams_default)

ListTimeout(timeout_secs) ==
    /\ HasParams("ListParams")
    /\ Build("ListParams", ListParams_timeout(Params, timeout_secs))

ListFields(field_selector) ==
    /\ HasParams("ListParams")
    /\ Build("ListParams", ListParams_fields(Params, field_selector))

ListLabels(label_selector) ==
    /\ HasParams("ListParams")
    /\ Build("ListParams", ListParams_labels(Params, label_selector))

ListDisableBookmarks ==
    /\ HasParams("ListParams")
    /\ Build("ListParams", ListParams_disable_bookmarks(Params))

ListLimit(limit) ==
    /\ HasParams("ListParams")
    /\ Build("ListParams", ListParams_limit(Params, limit))

ListContinueToken(token) ==
    /\ HasParams("ListParams")
    /\ Build("ListParams", ListParams_continue_token(Params, token))

ListValidate ==
    /\ HasParams("ListParams")
    /\ Return([fn |-> "ListParams::validate", self |-> Params,
               result |-> ListParams_validate(Params)])

\* PostParams { dry_run, field_manager }: both fields are public
PostLiteral(dry_run, field_manager) ==
    /\ IsNone(params)
    /\ Build("PostParams", PostParams(dry_run, field_manager))

PostValidate ==
    /\ HasParams("PostParams")
    /\ Return([fn |-> "PostParams::validate", self |-> Params,
               result |-> PostParams_validate(Params)])

PatchDefault ==
    /\ IsNone(params)
    /\ Build("PatchParams", PatchParams_default)

PatchApply(manager) ==
    /\ IsNone(params)
    /\ Build("PatchParams", PatchParams_apply(manager))

PatchForce ==
    /\ HasParams("PatchParams")
    /\ Build("PatchParams", PatchParams_force(Params))

PatchDryRun ==
    /\ HasParams("PatchParams")
    /\ Build("PatchParams", PatchParams_dry_run(Params))

PatchValidate(patch) ==
    /\ HasParams("PatchParams")
    /\ LET v == PatchParams_validate(Params, patch) IN
       Return([fn |-> "PatchParams::validate", self |-> Params, patch |-> patch,
               result |-> v.result, warned |-> v.warned])

\* patch.content_type(), as the request for a patch call is built
ContentType(patch) ==
    /\ HasParams("PatchParams")
    /\ Return([fn |-> "Patch::content_type", patch |-> patch, result |-> content_type(patch)])

DeleteDefault ==
    /\ IsNone(params)
    /\ Build("DeleteParams", DeleteParams_default)

\* dp.dry_run = true
DeleteDryRun ==
    /\ HasParams("DeleteParams")
    /\ Build("DeleteParams", [Params EXCEPT !.dry_run = TRUE])

\* dp.grace_period_seconds = Some(secs)
DeleteGracePeriod(secs) ==
    /\ HasParams("DeleteParams")
    /\ Build("DeleteParams", [Params EXCEPT !.grace_period_seconds = Some(secs)])

\* dp.propagation_policy = Some(policy)
DeletePropagationPolicy(policy) ==
    /\ HasParams("DeleteParams")
    /\ Build("DeleteParams", [Params EXCEPT !.propagation_policy = Some(policy)])

\* dp.preconditions = Some(preconditions)
DeletePreconditions(preconditions) ==
    /\ HasParams("DeleteParams")
    /\ Build("DeleteParams", [Params EXCEPT !.preconditions = Some(preconditions)])

\* serde_json::to_string(&dp): the body of a delete call
DeleteSerialize ==
    /\ HasParams("DeleteParams")
    /\ LET tokens == DeleteParams_serialize(Params) IN
       Return([fn |-> "DeleteParams::serialize", self |-> Params,
               tokens |-> tokens, result |-> to_string(tokens)])

NextParams ==
    \/ DeleteDefault
    \/ DeleteDryRun
    \/ \E secs \in {0, 30} : DeleteGracePeriod(secs)
    \/ \E policy \in {"Orphan", "Background", "Foreground"} : DeletePropagationPolicy(policy)
    \/ \E rv \in {None, Some("42")}, uid \in {None, Some("uid-1")} :
            DeletePreconditions(Preconditions(rv, uid))
    \/ DeleteSerialize
    \/ ListDefault
    \/ \E t \in Timeouts : ListTimeout(t)
    \/ \E f \in {"kubernetes.io/lifecycle=spot"} : ListFields(f)
    \/ \E l \in {"kubernetes.io/lifecycle=spot"} : ListLabels(l)
    \/ ListDisableBookmarks
    \/ \E n \in {500} : ListLimit(n)
    \/ \E tok \in {"page2"} : ListContinueToken(tok)
    \/ ListValidate
    \/ \E d \in BOOLEAN, fm \in {None} \cup {Some(m) : m \in FieldManagers} : PostLiteral(d, fm)
    \/ PostValidate
    \/ PatchDefault
    \/ \E m \in FieldManagers : PatchApply(m)
    \/ PatchForce
    \/ PatchDryRun
    \/ \E patch \in AnyPatch : PatchValidate(patch)
    \/ \E patch \in AnyPatch : ContentType(patch)

----------------------------------------------------------------------------
(* The webhook handler, one step per call into admission.rs *)

InitOf(E) ==
    /\ stage = [e \in E |-> "Idle"]
    /\ origin = [e \in E |-> None]
    /\ review = [e \in E |-> None]
    /\ converted = [e \in E |-> None]
    /\ response = [e \in E |-> None]
    /\ sent = [e \in E |-> None]

\* the body deserializes into an AdmissionReview
Receive(e, rev) ==
    /\ stage[e] = "Idle"
    /\ review' = [review EXCEPT ![e] = Some(rev)]
    /\ origin' = [origin EXCEPT ![e] =
          Some([types |-> rev.types,
                uid |-> IF IsSome(rev.request)
                        THEN Some(Unwrap(rev.request).uid) ELSE None])]
    /\ stage' = [stage EXCEPT ![e] = "Received"]
    /\ UNCHANGED <<converted, response, sent, dynamic, parameters>>

\* the body does not deserialize: there is no review to convert
ReceiveUnreadable(e) ==
    /\ stage[e] = "Idle"
    /\ stage' = [stage EXCEPT ![e] = "Unreadable"]
    /\ UNCHANGED <<origin, review, converted, response, sent, dynamic, parameters>>

\* let req: AdmissionRequest<_> = body.try_into(), which consumes the review
TryInto(e) ==
    /\ stage[e] = "Received"
    /\ LET r == try_into(Unwrap(review[e])) IN
        /\ converted' = [converted EXCEPT ![e] = Some(r)]
        /\ stage' = [stage EXCEPT ![e] = IF r.ok THEN "Converted" ELSE "Failed"]
    /\ review' = [review EXCEPT ![e] = None]
    /\ UNCHANGED <<origin, response, sent, dynamic, parameters>>

\* AdmissionResponse::from(&req), which borrows the request
From(e) ==
    /\ stage[e] = "Converted"
    /\ response' = [response EXCEPT ![e] = Some(from(Unwrap(converted[e]).val))]
    /\ stage' = [stage EXCEPT ![e] = "Built"]
    /\ UNCHANGED <<origin, review, converted, sent, dynamic, parameters>>

\* AdmissionResponse::invalid(reason), when the request could not be read
Invalid(e, reason) ==
    /\ stage[e] \in {"Unreadable", "Failed"}
    /\ response' = [response EXCEPT ![e] = Some(invalid(reason))]
    /\ stage' = [stage EXCEPT ![e] = "Built"]
    /\ UNCHANGED <<origin, review, converted, sent, dynamic, parameters>>

\* response.deny(reason)
Deny(e, reason) ==
    /\ stage[e] = "Built"
    /\ response' = [response EXCEPT ![e] = Some(deny(Unwrap(response[e]), reason))]
    /\ UNCHANGED <<stage, origin, review, converted, sent, dynamic, parameters>>

\* response.with_patch(patch)?
WithPatch(e, patch) ==
    /\ stage[e] = "Built"
    /\ LET r == with_patch(Unwrap(response[e]), patch) IN
          /\ r.ok
          /\ response' = [response EXCEPT ![e] = Some(r.val)]
    /\ UNCHANGED <<stage, origin, review, converted, sent, dynamic, parameters>>

\* response.audit_annotations.insert(key, value), the field being public
Annotate(e) ==
    /\ stage[e] = "Built"
    /\ response' = [response EXCEPT ![e] =
          Some([Unwrap(response[e]) EXCEPT !.audit_annotations = {AuditAnnotation}])]
    /\ UNCHANGED <<stage, origin, review, converted, sent, dynamic, parameters>>

\* response.warnings = Some(vec![warning]), the field being public
Warn(e) ==
    /\ stage[e] = "Built"
    /\ response' = [response EXCEPT ![e] =
          Some([Unwrap(response[e]) EXCEPT !.warnings = Some(<<Warning>>)])]
    /\ UNCHANGED <<stage, origin, review, converted, sent, dynamic, parameters>>

\* response.into_review(), which consumes the response
IntoReview(e) ==
    /\ stage[e] = "Built"
    /\ sent' = [sent EXCEPT ![e] = Some(into_review(Unwrap(response[e])))]
    /\ response' = [response EXCEPT ![e] = None]
    /\ stage' = [stage EXCEPT ![e] = "Sent"]
    /\ UNCHANGED <<origin, review, converted, dynamic, parameters>>

\* the calls into admission.rs that make up an exchange
Exchange(e) ==
    \/ \E rev \in Reviews : Receive(e, rev)
    \/ ReceiveUnreadable(e)
    \/ TryInto(e)
    \/ From(e)
    \/ \E reason \in Reasons : Invalid(e, reason)
    \/ \E reason \in Reasons : Deny(e, reason)
    \/ \E patch \in Patches : WithPatch(e, patch)
    \/ IntoReview(e)

\* an exchange whose handler also writes the response's public fields
Step(e) ==
    \/ Exchange(e)
    \/ Annotate(e)
    \/ Warn(e)

Init == InitOf(Single) /\ InitDynamic /\ InitParams

Next == \E e \in Single : Step(e)

\* one exchange, every input
Spec == Init /\ [][Next]_vars

InitInterleaved == InitOf(Exchanges) /\ InitDynamic /\ InitParams

NextInterleaved == \E e \in Exchanges : Exchange(e)

\* several exchanges in flight, their calls interleaved in any order
SpecInterleaved == InitInterleaved /\ [][NextInterleaved]_vars

\* a GroupVersionKind is constructed and plural() is called on it, any number of times
SpecDynamic == Init /\ [][NextDynamic]_vars

\* a params value is built, its builders are chained and it is validated
SpecParams == Init /\ [][NextParams]_vars

----------------------------------------------------------------------------
(* The admission exchange: properties *)

InFlight == DOMAIN stage

\* the exchange has a request: its review converted
HasRequest(e) == IsSome(converted[e]) /\ Unwrap(converted[e]).ok

Request(e) == Unwrap(converted[e]).val

Origin(e) == Unwrap(origin[e])

Response(e) == Unwrap(response[e])

Sent(e) == Unwrap(sent[e])

\* C1: a review that arrived with a request, converted with try_into, answered with
\* AdmissionResponse::from(&req) and wrapped with into_review(), comes back with the
\* types (api_version and kind) of the review that arrived and the uid of its request.
C1_RoundTrip ==
    \A e \in InFlight :
        (HasRequest(e) /\ IsSome(sent[e])) =>
            /\ Sent(e).types = Origin(e).types
            /\ IsSome(Sent(e).response)
            /\ Some(Unwrap(Sent(e).response).uid) = Origin(e).uid

\* version_passes_through: a v1 review answered with the untouched default response
C1_Witness ==
    \E e \in InFlight :
        /\ HasRequest(e) /\ IsSome(sent[e])
        /\ Origin(e).types = TypeMeta("admission.k8s.io/v1", "AdmissionReview")
        /\ Origin(e).uid = Some("0c9a8d74")
        /\ Sent(e).response = Some(from(Request(e)))

\* C2: try_into fails, with a RequestValidation error and no request, exactly when
\* the review's request is absent; when it is present the conversion succeeds with
\* that very request (under the review's types), never a default one.
C2_TryIntoFailsIffAbsent ==
    [][\A e \in InFlight :
          TryInto(e) =>
              LET rev == Unwrap(review[e])
                  r == Unwrap(converted'[e])
              IN /\ r.ok <=> IsSome(rev.request)
                 /\ ~r.ok => /\ r.err.variant = "RequestValidation"
                             /\ stage'[e] = "Failed"
                 /\ r.ok => /\ r.val.uid = Unwrap(rev.request).uid
                            /\ [r.val EXCEPT !.types = DefaultTypeMeta]
                                 = [Unwrap(rev.request) EXCEPT !.types = DefaultTypeMeta]
                            /\ stage'[e] = "Converted"]_vars

\* both outcomes of the conversion have happened
C2_Witness ==
    \E e \in InFlight :
        /\ stage[e] = "Failed"
        /\ IsNone(Origin(e).uid)
        /\ ~Unwrap(converted[e]).ok

\* C3: with several exchanges in flight and their calls interleaved in any order,
\* every review sent carries the uid and types of the request of its own exchange,
\* and not those of another exchange whose request differs in them.
C3_OwnCorrelation ==
    \A e \in InFlight :
        (HasRequest(e) /\ IsSome(sent[e])) =>
            /\ Unwrap(Sent(e).response).uid = Request(e).uid
            /\ Sent(e).types = Request(e).types
            /\ \A o \in InFlight \ {e} :
                  HasRequest(o) =>
                      /\ Request(o).uid # Request(e).uid
                            => Unwrap(Sent(e).response).uid # Request(o).uid
                      /\ Request(o).types # Request(e).types
                            => Sent(e).types # Request(o).types

\* one exchange answered while another, of another uid and version, is still being built
C3_Witness ==
    \E e, o \in InFlight :
        /\ e # o
        /\ HasRequest(e) /\ stage[e] = "Sent"
        /\ HasRequest(o) /\ stage[o] = "Built"
        /\ Request(e).uid # Request(o).uid
        /\ Request(e).types # Request(o).types
        /\ IsSome(Response(o).patch)

\* C4: AdmissionResponse::from(&req) copies uid and types from the request, allows,
\* with no patch, no patch type, no audit annotations and no warnings, and leaves the
\* request as it was.
C4_FromCopies ==
    [][\A e \in InFlight :
          From(e) =>
              LET req == Request(e)
                  r == Unwrap(response'[e])
              IN /\ r.uid = req.uid
                 /\ r.types = req.types
                 /\ r.allowed = TRUE
                 /\ IsNone(r.patch)
                 /\ IsNone(r.patch_type)
                 /\ r.audit_annotations = {}
                 /\ IsNone(r.warnings)
                 /\ converted'[e] = converted[e]]_vars

\* a response just built from a v1beta1 request
C4_Witness ==
    \E e \in InFlight :
        /\ stage[e] = "Built" /\ HasRequest(e)
        /\ Request(e).types.api_version = "admission.k8s.io/v1beta1"
        /\ Response(e).uid = "5b1f2e90"
        /\ Response(e).allowed

\* C5: deny(reason) on any response sets allowed to false and the result's message
\* to the reason, and leaves uid, types, patch, patch type, audit annotations and
\* warnings as they were.
C5_DenyFrame ==
    [][\A e \in InFlight : \A reason \in Reasons :
          Deny(e, reason) =>
              LET old == Response(e)
                  new == Unwrap(response'[e])
              IN /\ new.allowed = FALSE
                 /\ new.result.message = Some(reason)
                 /\ new.uid = old.uid
                 /\ new.types = old.types
                 /\ new.patch = old.patch
                 /\ new.patch_type = old.patch_type
                 /\ new.audit_annotations = old.audit_annotations
                 /\ new.warnings = old.warnings]_vars

\* a denied response that carries a uid, a patch, an annotation and a warning
C5_Witness ==
    \E e \in InFlight :
        /\ stage[e] = "Built" /\ HasRequest(e)
        /\ ~Response(e).allowed
        /\ Response(e).result.message = Some("Some rejection reason.")
        /\ Response(e).uid # ""
        /\ IsSome(Response(e).patch)
        /\ Response(e).audit_annotations # {}
        /\ IsSome(Response(e).warnings)

\* C6: invalid(reason) yields a denial with an empty uid and the envelope types
\* AdmissionReview / admission.k8s.io/v1beta1, the reason in the result's reason
\* field and no message, and no patch; into_review() wraps it into a review of that
\* apiVersion and kind with the response populated.
C6_InvalidDenies ==
    [][\A e \in InFlight :
          /\ \A reason \in Reasons :
                Invalid(e, reason) =>
                    LET r == Unwrap(response'[e]) IN
                    /\ r.allowed = FALSE
                    /\ r.uid = ""
                    /\ r.types = TypeMeta("admission.k8s.io/v1beta1", "AdmissionReview")
                    /\ r.result.reason = Some(reason)
                    /\ IsNone(r.result.message)
                    /\ IsNone(r.patch) /\ IsNone(r.patch_type)
          /\ (IntoReview(e) /\ ~HasRequest(e)) =>
                LET rev == Unwrap(sent'[e]) IN
                /\ rev.types = TypeMeta("admission.k8s.io/v1beta1", "AdmissionReview")
                /\ IsSome(rev.response)
                /\ Unwrap(rev.response).allowed = FALSE
                /\ Unwrap(rev.response).uid = ""]_vars

\* the rejection of an unreadable body, sent as built
C6_Witness ==
    \E e \in InFlight :
        /\ stage[e] = "Sent" /\ IsNone(origin[e])
        /\ Sent(e).response = Some(invalid("unreadable body"))

\* C7: into_review() returns a review with no request, with the response it was
\* called on, every field as it was, and with the response's types as its own.
C7_IntoReviewWraps ==
    [][\A e \in InFlight :
          IntoReview(e) =>
              LET rev == Unwrap(sent'[e]) IN
              /\ IsNone(rev.request)
              /\ rev.response = Some(Response(e))
              /\ rev.types = Response(e).types]_vars

\* a sent review whose response had every optional field set
C7_Witness ==
    \E e \in InFlight :
        /\ stage[e] = "Sent"
        /\ LET r == Unwrap(Sent(e).response) IN
           /\ ~r.allowed /\ IsSome(r.result.message)
           /\ IsSome(r.patch) /\ IsSome(r.warnings)
           /\ r.audit_annotations # {}
           /\ r.types.api_version = "admission.k8s.io/v1"

\* C8 as stated: every review of an exchange has exactly one of request and response,
\* the request on the way in and the response on the way out.
C8_ExactlyOne ==
    \A e \in InFlight :
        /\ IsSome(review[e]) =>
              IsSome(Unwrap(review[e]).request) /\ IsNone(Unwrap(review[e]).response)
        /\ IsSome(sent[e]) =>
              IsNone(Sent(e).request) /\ IsSome(Sent(e).response)

\* C8, amended: every review on the way out has the response and not the request;
\* on the way in nothing is enforced on arrival, and only a review that converted
\* is known to have had its request.
C8_ExactlyOneOut ==
    \A e \in InFlight :
        /\ IsSome(sent[e]) =>
              IsNone(Sent(e).request) /\ IsSome(Sent(e).response)
        /\ HasRequest(e) => IsSome(Origin(e).uid)

\* a review sent in answer to a review that arrived with its request
C8_Witness ==
    \E e \in InFlight :
        /\ stage[e] = "Sent" /\ HasRequest(e)
        /\ IsSome(Origin(e).uid)
        /\ IsSome(Sent(e).response)

\* C9: with_patch(patch) is accepted on a denied response as on an allowed one: it
\* succeeds, attaches the patch's bytes with the patch type JSONPatch, and leaves
\* allowed, uid, types and the result as they were.
C9_PatchOnAny ==
    \A e \in InFlight :
        IsSome(response[e]) =>
            \A patch \in Patches :
                LET old == Response(e)
                    r == with_patch(old, patch)
                IN /\ r.ok
                   /\ r.val.patch = Some(to_vec(patch).val)
                   /\ patch = <<AddLabel>> =>
                         r.val.patch = Some("[{\"op\":\"add\",\"path\":\"/metadata/labels/my-label\",\"value\":\"my-value\"}]")
                   /\ r.val.patch_type = Some("JSONPatch")
                   /\ r.val.allowed = old.allowed
                   /\ r.val.uid = old.uid
                   /\ r.val.types = old.types
                   /\ r.val.result = old.result

\* a patch on a response that invalid() built denied and nothing else touched
C9_Witness ==
    \E e \in InFlight :
        /\ stage[e] = "Built" /\ ~HasRequest(e)
        /\ ~Response(e).allowed
        /\ IsNone(Response(e).result.message)
        /\ Response(e).patch = Some("[]")
        /\ Response(e).patch_type = Some("JSONPatch")

----------------------------------------------------------------------------
(* GroupVersionKind: properties *)

\* C10: every GroupVersionKind that gvk() or from_api_resource() returns, and every
\* value plural() makes of one, has api_version = version when its group is empty and
\* api_version = group "/" version otherwise.
C10_ApiVersion ==
    (IsSome(dt) /\ Unwrap(dt).ok) =>
        LET v == Unwrap(dt).val IN
        v.api_version = IF v.group = <<>> THEN v.version
                        ELSE v.group \o <<"/">> \o v.version

\* a core-group value of gvk() that plural() was then called on
C10_Witness ==
    /\ IsSome(dt) /\ Unwrap(dt).ok
    /\ Unwrap(call).fn = "plural"
    /\ Unwrap(dt).val.group = <<>>
    /\ Unwrap(dt).val.api_version = <<"v1">>
    /\ Unwrap(dt).val.kind = KindService

\* the value in hand, once a constructor returned one
Descriptor == Unwrap(dt).val

\* the last call is fn
Called(fn) == IsSome(call) /\ Unwrap(call).fn = fn

\* C11: gvk(group, version, kind) returns a DynamicType error and no value when the
\* version is empty or the kind is empty, and succeeds for every non-empty version and
\* kind whatever the group, the empty one included; on success plural is unset.
C11_GvkValidates ==
    Called("gvk") =>
        LET c == Unwrap(call)
            r == Unwrap(dt)
        IN /\ ~r.ok <=> (c.version = <<>> \/ c.kind = <<>>)
           /\ ~r.ok => r.err.variant = "DynamicType"
           /\ r.ok => /\ r.val.group = c.group
                      /\ r.val.version = c.version
                      /\ r.val.kind = c.kind
                      /\ IsNone(r.val.plural)

\* gvk("g", "v", ""): the kind is empty and the call failed
C11_Witness ==
    /\ Called("gvk")
    /\ Unwrap(call).group # <<>> /\ Unwrap(call).version # <<>> /\ Unwrap(call).kind = <<>>
    /\ ~Unwrap(dt).ok

\* C12 as stated: every GroupVersionKind a constructor returns has a non-empty version
\* and a non-empty kind; a construction with either empty fails instead.
C12_NonEmptyVersionKind ==
    ((Called("gvk") \/ Called("from_api_resource")) /\ Unwrap(dt).ok) =>
        (Descriptor.version # <<>> /\ Descriptor.kind # <<>>)

\* the first '/' of a string is at i: no '/' before it
FirstSlashAt(str, i) ==
    /\ i \in 1..Len(str)
    /\ str[i] = "/"
    /\ \A j \in 1..(i - 1) : str[j] # "/"

\* C13: from_api_resource(ar, group_version) splits group_version on its first "/"
\* only: without a "/" the default group is empty and the default version the whole
\* string, with one the default group is what precedes it and the default version all
\* that follows; group and version are the resource's own when present and these
\* defaults otherwise, kind is the resource's kind and plural is the resource's name.
C13_FromApiResource ==
    Called("from_api_resource") =>
        LET ar == Unwrap(call).ar
            gv == Unwrap(call).group_version
            v == Descriptor
        IN /\ Unwrap(dt).ok
           /\ IsSome(ar.group) => v.group = Unwrap(ar.group)
           /\ IsSome(ar.version) => v.version = Unwrap(ar.version)
           /\ (\A i \in 1..Len(gv) : gv[i] # "/") =>
                 /\ IsNone(ar.group) => v.group = <<>>
                 /\ IsNone(ar.version) => v.version = gv
           /\ \A i \in 1..Len(gv) :
                 FirstSlashAt(gv, i) =>
                     /\ IsNone(ar.group) => v.group = SubSeq(gv, 1, i - 1)
                     /\ IsNone(ar.version) => v.version = SubSeq(gv, i + 1, Len(gv))
           /\ v.kind = ar.kind
           /\ v.plural = Some(ar.name)

\* "apps/v1/apps" with nothing set on the resource: the version keeps the second "/"
C13_Witness ==
    /\ Called("from_api_resource")
    /\ Unwrap(call).group_version = <<"apps", "/", "v1", "/", "apps">>
    /\ IsNone(Unwrap(call).ar.group) /\ IsNone(Unwrap(call).ar.version)
    /\ Descriptor.group = <<"apps">>
    /\ Descriptor.version = <<"v1", "/", "apps">>
    /\ Descriptor.plural = Some(<<"deployments">>)

\* C14: Resource::plural returns the explicit plural when one is set and otherwise
\* infers it from the lower-cased kind: "Service" gives "services", "Foo" gives "foos"
C14_PluralInferred ==
    (IsSome(dt) /\ Unwrap(dt).ok) =>
        /\ IsSome(Descriptor.plural) =>
            DynamicObject_plural(Descriptor) = Unwrap(Descriptor.plural)
        /\ IsNone(Descriptor.plural) =>
            /\ DynamicObject_plural(Descriptor) = to_plural(to_ascii_lowercase(Descriptor.kind))
            /\ Descriptor.kind = KindService =>
                DynamicObject_plural(Descriptor) = <<"s", "e", "r", "v", "i", "c", "e", "s">>
            /\ Descriptor.kind = KindFoo =>
                DynamicObject_plural(Descriptor) = <<"f", "o", "o", "s">>

C14_Witness ==
    /\ Called("gvk")
    /\ Unwrap(dt).ok
    /\ Descriptor.kind = KindFoo
    /\ IsNone(Descriptor.plural)
    /\ DynamicObject_plural(Descriptor) = <<"f", "o", "o", "s">>

\* C15: for one GroupVersionKind the dynamic and the typed representation report the
\* same group, version, kind, api_version and plural, hence the same path; objects
\* made from the same name and GroupVersionKind report the same name and types
C15_SameAsTyped ==
    /\ (IsSome(dt) /\ Unwrap(dt).ok) =>
        /\ DynamicObject_group(Descriptor) = Object_group(Descriptor)
        /\ DynamicObject_version(Descriptor) = Object_version(Descriptor)
        /\ DynamicObject_kind(Descriptor) = Object_kind(Descriptor)
        /\ DynamicObject_api_version(Descriptor) = Object_api_version(Descriptor)
        /\ DynamicObject_plural(Descriptor) = Object_plural(Descriptor)
        /\ \A ns \in {None} \cup {Some(n) : n \in Namespaces} :
            DynamicObject_url_path(Descriptor, ns) = Object_url_path(Descriptor, ns)
    /\ (IsSome(dynamic_object) /\ IsSome(object)) =>
        /\ DynamicObject_name(Unwrap(dynamic_object)) = Object_name(Unwrap(object))
        /\ Unwrap(dynamic_object).types = Some(Unwrap(object).types)
        /\ DynamicObject_meta(Unwrap(dynamic_object)) = Object_meta(Unwrap(object))

C15_Witness ==
    /\ Called("new")
    /\ Descriptor.group = <<"clux.dev">>
    /\ Descriptor.kind = KindFoo
    /\ IsNone(Descriptor.plural)
    /\ DynamicObject_name(Unwrap(dynamic_object)) = Ok(<<"baz">>)
    /\ Object_name(Unwrap(object)) = Ok(<<"baz">>)
    /\ Unwrap(object).types.api_version = <<"clux.dev", "/", "v1">>
    /\ Object_url_path(Descriptor, Some(<<"myns">>))
        = <<"/", "apis", "/", "clux.dev", "/", "v1", "/",
            "namespaces", "/", "myns", "/", "f", "o", "o", "s">>

\* C16: name() returns the metadata name when it is set and panics when it is absent;
\* namespace() and resource_ver() never fail and return the absent value when unset;
\* an object built by new() has its name and no namespace until one is attached
C16_NameNamespace ==
    (IsSome(dynamic_object) /\ IsSome(object)) =>
        LET d == Unwrap(dynamic_object)
            o == Unwrap(object)
        IN  /\ IsSome(d.metadata.name) => DynamicObject_name(d) = Ok(Unwrap(d.metadata.name))
            /\ IsNone(d.metadata.name) => DynamicObject_name(d) = Panic("missing name")
            /\ IsSome(o.metadata.name) => Object_name(o) = Ok(Unwrap(o.metadata.name))
            /\ IsNone(o.metadata.name) => Object_name(o) = Panic("missing name")
            /\ DynamicObject_namespace(d) = d.metadata.namespace
            /\ DynamicObject_resource_ver(d) = d.metadata.resource_version
            /\ Object_namespace(o) = o.metadata.namespace
            /\ Object_resource_ver(o) = o.metadata.resource_version
            /\ Called("new") =>
                /\ DynamicObject_name(d) = Ok(Unwrap(call).name)
                /\ Object_name(o) = Ok(Unwrap(call).name)
                /\ IsNone(DynamicObject_namespace(d))
                /\ IsNone(Object_namespace(o))
            /\ Called("namespace") =>
                /\ DynamicObject_namespace(d) = Some(Unwrap(call).ns)
                /\ Object_namespace(o) = Some(Unwrap(call).ns)

C16_Witness ==
    /\ Called("deserialize")
    /\ IsNone(Unwrap(call).metadata.name)
    /\ ~DynamicObject_name(Unwrap(dynamic_object)).ok
    /\ IsNone(DynamicObject_namespace(Unwrap(dynamic_object)))
    /\ IsNone(DynamicObject_resource_ver(Unwrap(dynamic_object)))

Returned(fn) == IsSome(outcome) /\ Unwrap(outcome).fn = fn

Outcome == Unwrap(outcome)

\* C17: content_type() maps Apply to application/apply-patch+yaml, Json to
\* application/json-patch+json, Merge to application/merge-patch+json and Strategic to
\* application/strategic-merge-patch+json whatever the payload, and two patches have
\* the same content type only when they are the same variant
C17_ContentType ==
    Returned("Patch::content_type") =>
        LET patch == Outcome.patch IN
        /\ patch.variant = "Apply" => Outcome.result = "application/apply-patch+yaml"
        /\ patch.variant = "Json" => Outcome.result = "application/json-patch+json"
        /\ patch.variant = "Merge" => Outcome.result = "application/merge-patch+json"
        /\ patch.variant = "Strategic" =>
            Outcome.result = "application/strategic-merge-patch+json"
        /\ \A other \in AnyPatch :
            (content_type(other) = Outcome.result) <=> (other.variant = patch.variant)

C17_Witness ==
    /\ Returned("Patch::content_type")
    /\ Outcome.patch = Patch("Strategic", [metadata |-> [name |-> "blog"]])
    /\ Outcome.result = "application/strategic-merge-patch+json"

\* C18: PatchParams::validate with force set and a patch that is not Apply succeeds
\* and only warns; is_apply() is true exactly for Apply; the Result of validate is
\* decided by the length of the field manager, never by force or the patch variant
C18_ForceWarnsOnly ==
    Returned("PatchParams::validate") =>
        LET self == Outcome.self
            patch == Outcome.patch
            fits == IsNone(self.field_manager) \/ String_len(Unwrap(self.field_manager)) <= 128
        IN  /\ is_apply(patch) <=> (patch.variant = "Apply")
            /\ Outcome.result.ok <=> fits
            /\ (self.force /\ patch.variant # "Apply" /\ fits) =>
                (Outcome.result = Ok(Unit) /\ Outcome.warned)
            /\ Outcome.warned => (self.force /\ patch.variant # "Apply")
            /\ \A force \in BOOLEAN, other \in AnyPatch :
                PatchParams_validate([self EXCEPT !.force = force], other).result
                    = Outcome.result

C18_Witness ==
    /\ Returned("PatchParams::validate")
    /\ Outcome.self.force
    /\ Outcome.patch.variant = "Merge"
    /\ Outcome.self.field_manager = Some(Repeat("a", 128))
    /\ Outcome.result = Ok(Unit)
    /\ Outcome.warned

\* C19: ListParams::validate fails with RequestValidation for every timeout >= 295 and
\* passes for every timeout <= 294 and for no timeout, whatever the other parameters
C19_TimeoutCeiling ==
    Returned("ListParams::validate") =>
        LET self == Outcome.self IN
        /\ (IsSome(self.timeout) /\ Unwrap(self.timeout) >= 295) =>
            (~Outcome.result.ok /\ Outcome.result.err.variant = "RequestValidation")
        /\ (IsSome(self.timeout) /\ Unwrap(self.timeout) <= 294) => Outcome.result = Ok(Unit)
        /\ IsNone(self.timeout) => Outcome.result = Ok(Unit)

C19_Witness ==
    /\ Returned("ListParams::validate")
    /\ Outcome.self.timeout = Some(295)
    /\ Outcome.self.label_selector # None
    /\ ~Outcome.self.bookmarks
    /\ ~Outcome.result.ok

\* C20: PostParams::validate and PatchParams::validate fail with RequestValidation
\* exactly when a field manager is set and is longer than 128 (bytes, as len() counts);
\* a field manager of length 128 or less, or none, passes
C20_FieldManagerLimit ==
    (Returned("PostParams::validate") \/ Returned("PatchParams::validate")) =>
        LET fm == Outcome.self.field_manager
            over == IsSome(fm) /\ String_len(Unwrap(fm)) > 128
        IN  /\ over => (~Outcome.result.ok /\ Outcome.result.err.variant = "RequestValidation")
            /\ ~over => Outcome.result = Ok(Unit)

C20_Witness ==
    /\ Returned("PostParams::validate")
    /\ Outcome.self.field_manager = Some(Repeat("a", 129))
    /\ ~Outcome.result.ok

\* the positions of the key "dryRun" among the tokens of a serialized body
DryRunKeys(tokens) == {i \in 1..Len(tokens) : tokens[i] = Quoted("dryRun")}

\* C21: the serialized DeleteParams carries dryRun not at all (dry_run = false) or as
\* the one-element array ["All"] (dry_run = true), never as a boolean; the default
\* serializes to {} and dry_run = true alone to {"dryRun":["All"]}
C21_DryRunBody ==
    Returned("DeleteParams::serialize") =>
        LET self == Outcome.self
            tokens == Outcome.tokens
        IN  /\ ~self.dry_run => DryRunKeys(tokens) = {}
            /\ self.dry_run =>
                /\ DryRunKeys(tokens) = {2}
                /\ Len(tokens) >= 7
                /\ SubSeq(tokens, 3, 6) = <<":", "[", "\"All\"", "]">>
                /\ tokens[7] \in {",", "}"}
            /\ \A i \in DryRunKeys(tokens) : tokens[i + 2] \notin {"true", "false", "null"}
            /\ self = DeleteParams_default => Outcome.result = "{}"
            /\ self = [DeleteParams_default EXCEPT !.dry_run = TRUE] =>
                Outcome.result = "{\"dryRun\":[\"All\"]}"

C21_Witness ==
    /\ Returned("DeleteParams::serialize")
    /\ Outcome.self = [DeleteParams_default EXCEPT !.dry_run = TRUE]
    /\ Outcome.result = "{\"dryRun\":[\"All\"]}"

\* C22: equality of GroupVersionKind values is structural over all five fields, the
\* plural included: a value without a plural and the same value after plural(p) are
\* unequal, also when p is the plural that would be inferred
C22_StructuralEquality ==
    Called("plural") =>
        LET before == Unwrap(call).self
            after == Descriptor
        IN  /\ GroupVersionKind_eq(before, after) <=> (before = after)
            /\ GroupVersionKind_eq(before, after) <=> (before.plural = Some(Unwrap(call).plural))
            /\ IsNone(before.plural) => ~GroupVersionKind_eq(before, after)
            /\ GroupVersionKind_eq(after, plural(before, Unwrap(call).plural))

C22_Witness ==
    /\ Called("plural")
    /\ Unwrap(call).self.kind = KindFoo
    /\ IsNone(Unwrap(call).self.plural)
    /\ Unwrap(call).plural = DynamicObject_plural(Unwrap(call).self)
    /\ ~GroupVersionKind_eq(Unwrap(call).self, Descriptor)

\* how far an exchange has come; a failed or unreadable one stands where a
\* converted one does, before its response is built
StageRank(s) ==
    CASE s = "Idle" -> 0
      [] s = "Received" -> 1
      [] s \in {"Converted", "Failed", "Unreadable"} -> 2
      [] s = "Built" -> 3
      [] s = "Sent" -> 4

\* the values an exchange holds at each stage: the review until it is converted,
\* the response while it is built, the outgoing review once it is sent
StageHolds(e) ==
    /\ IsSome(review[e]) <=> (stage[e] = "Received")
    /\ IsSome(converted[e]) <=> (stage[e] \in {"Converted", "Failed"}
                                 \/ (stage[e] \in {"Built", "Sent"} /\ IsSome(origin[e])))
    /\ HasRequest(e) => (IsSome(origin[e]) /\ IsSome(Origin(e).uid))
    /\ (stage[e] = "Converted") => HasRequest(e)
    /\ (stage[e] = "Failed") => (IsSome(converted[e]) /\ ~HasRequest(e))
    /\ IsSome(response[e]) <=> (stage[e] = "Built")
    /\ IsSome(sent[e]) <=> (stage[e] = "Sent")

\* C23: an exchange moves only forward through Received, Converted, Built, Sent: a
\* response with a request's uid is built only after that request's review converted,
\* a review is sent only after its response was built, and an exchange whose review
\* had no request to convert never reaches Converted or a response built from a request
C23_ForwardOnly ==
    /\ [](\A e \in InFlight :
            /\ StageHolds(e)
            /\ (IsSome(response[e]) /\ Response(e).uid # "") =>
                (HasRequest(e) /\ Response(e).uid = Request(e).uid)
            /\ (IsSome(sent[e]) /\ Unwrap(Sent(e).response).uid # "") =>
                (HasRequest(e) /\ Unwrap(Sent(e).response).uid = Request(e).uid)
            /\ (IsSome(origin[e]) /\ IsNone(Origin(e).uid) /\ stage[e] # "Received") =>
                /\ IsSome(converted[e]) /\ ~HasRequest(e)
                /\ stage[e] # "Converted"
                /\ IsSome(response[e]) => Response(e).uid = ""
                /\ IsSome(sent[e]) => Unwrap(Sent(e).response).uid = "")
    /\ [][\A e \in InFlight :
            /\ StageRank(stage'[e]) >= StageRank(stage[e])
            /\ (stage'[e] # stage[e]) => StageRank(stage'[e]) = StageRank(stage[e]) + 1
                                          \/ (stage[e] = "Idle" /\ stage'[e] = "Unreadable")
            /\ (stage'[e] = "Converted" /\ stage[e] # "Converted") =>
                (stage[e] = "Received" /\ IsSome(Unwrap(review[e]).request))
            /\ (IsNone(response[e]) /\ IsSome(response'[e]) /\ Unwrap(response'[e]).uid # "") =>
                (HasRequest(e) /\ Unwrap(response'[e]) = from(Request(e)))
            /\ (IsNone(sent[e]) /\ IsSome(sent'[e])) =>
                (IsSome(response[e]) /\ Unwrap(sent'[e]) = into_review(Response(e)))
       ]_vars

C23_Witness ==
    \E e \in InFlight, f \in InFlight :
        /\ e # f
        /\ stage[e] = "Sent" /\ HasRequest(e)
        /\ Unwrap(Sent(e).response).uid = Request(e).uid
        /\ stage[f] = "Sent" /\ IsSome(converted[f]) /\ ~HasRequest(f)
        /\ Unwrap(Sent(f).response).uid = ""

\* C24: in every response built by From(&req) or invalid() and any sequence of deny and
\* with_patch calls, the patch is present exactly when the patch type is, and a present
\* patch type is JSONPatch
C24_PatchWithType ==
    \A e \in InFlight :
        /\ IsSome(response[e]) =>
            /\ IsSome(Response(e).patch) <=> IsSome(Response(e).patch_type)
            /\ IsSome(Response(e).patch_type) => Response(e).patch_type = Some(JsonPatch)
        /\ IsSome(sent[e]) =>
            LET r == Unwrap(Sent(e).response) IN
            /\ IsSome(r.patch) <=> IsSome(r.patch_type)
            /\ IsSome(r.patch_type) => r.patch_type = Some(JsonPatch)

C24_Witness ==
    \E e \in InFlight :
        /\ IsSome(response[e])
        /\ HasRequest(e)
        /\ Response(e).allowed
        /\ Response(e).patch = Some("[" \o OperationsJson(<<AddLabel, RemoveLabel>>) \o "]")
        /\ Response(e).patch_type = Some(JsonPatch)

\* C25: denial is permanent under the builder operations: once allowed is false, no
\* deny, with_patch or into_review makes it true again, and a response built by
\* From(&req) stays allowed until deny is called
C25_DenialPermanent ==
    [][\A e \in InFlight :
        /\ (IsSome(response[e]) /\ IsSome(response'[e]) /\ ~Response(e).allowed) =>
            ~Unwrap(response'[e]).allowed
        /\ (IsSome(response[e]) /\ IsSome(sent'[e]) /\ IsNone(sent[e])) =>
            (Unwrap(Unwrap(sent'[e]).response).allowed <=> Response(e).allowed)
        /\ (IsSome(response[e]) /\ IsSome(response'[e]) /\ Response(e).allowed
                /\ ~(\E reason \in Reasons : Deny(e, reason))) =>
            Unwrap(response'[e]).allowed
        /\ (\E reason \in Reasons : Deny(e, reason)) => ~Unwrap(response'[e]).allowed
        /\ (IsNone(response[e]) /\ IsSome(response'[e])) =>
            (Unwrap(response'[e]).allowed <=> HasRequest(e))
       ]_vars

C25_Witness ==
    \E e \in InFlight :
        /\ stage[e] = "Sent"
        /\ HasRequest(e)
        /\ ~Unwrap(Sent(e).response).allowed
        /\ IsSome(Unwrap(Sent(e).response).result.message)
        /\ IsSome(Unwrap(Sent(e).response).patch)

\* C26: deny and with_patch commute: for every response r, reason s and patch p,
\* r.deny(s).with_patch(p) and r.with_patch(p).deny(s) are the same response; a second
\* deny only replaces the message and a second with_patch only replaces the patch
C26_DenyPatchCommute ==
    \A e \in InFlight :
        IsSome(response[e]) =>
            \A s \in Reasons, p \in Patches :
                LET r == Response(e)
                    denied_first == with_patch(deny(r, s), p)
                    patched_first == with_patch(r, p)
                IN  /\ denied_first.ok /\ patched_first.ok
                    /\ denied_first.val = deny(patched_first.val, s)
                    /\ \A s2 \in Reasons :
                        /\ deny(deny(r, s), s2) = deny(r, s2)
                        /\ deny(deny(r, s), s2)
                            = [deny(r, s) EXCEPT !.result.message = Some(s2)]
                    /\ \A p2 \in Patches :
                        /\ with_patch(patched_first.val, p2) = with_patch(r, p2)
                        /\ with_patch(patched_first.val, p2).val
                            = [patched_first.val EXCEPT
                                  !.patch = with_patch(r, p2).val.patch]

C26_Witness ==
    \E e \in InFlight :
        /\ IsSome(response[e])
        /\ ~HasRequest(e)
        /\ Response(e).result.reason = Some("unreadable body")
        /\ Response(e).result.message = Some("Some rejection reason.")
        /\ Response(e).patch = Some("[" \o OperationsJson(<<AddLabel>>) \o "]")
        /\ with_patch(deny(Response(e), "unreadable body"), <<>>).val
            = deny(with_patch(Response(e), <<>>).val, "unreadable body")

====
